---- MODULE Spec2Model ----
(***************************************************************************)
(* A model of `notes find` (src/cmd_find.go): the query matcher            *)
(* (findQueryMatch, isFuzzyTokenMatch, isSubsequence) and the              *)
(* search-and-dispatch pipeline of FindCmd.Do / FindCmd.printNotes.        *)
(*                                                                         *)
(* A Go string is modelled as the sequence of its Unicode code points      *)
(* (valid UTF-8).  len(s) of Go counts bytes, []rune(s) counts code        *)
(* points; both are kept apart (ByteLen / Len).                            *)
(***************************************************************************)
EXTENDS Integers, Sequences, FiniteSets, TLC

VARIABLES
    text,         \* matcher specifications: the text (haystack) argument
    query,        \* matcher specifications: the query (token, needle) argument
    ret,          \* matcher specifications: "none", or what the call returned
    home,         \* the notes under the note root (Config.HomePath)
    cfg,          \* cmd.Config: PagerCmd, EditorCmd
    cmd,          \* the FindCmd options: Query, Relative, SortBy, Edit
    pc,           \* where FindCmd.Do stands
    cats,         \* Do's cats, as CollectCategories returned it
    cursor,       \* the position of the two nested loops in the traversal
    notes,        \* Do's notes slice
    cmdout,       \* cmd.out: "unset", "Out" or "pager"
    out,          \* what cmd.Out has received
    pager,        \* the PagerWriter: started, waited, Err, stdin
    editorCalls,  \* the argument lists openEditor was called with
    spawned,      \* the subprocesses started
    sortedBy,     \* the sorts printNotes ran
    result,       \* what Do returned
    wfail,        \* the failure of a write through the pager, if any
    loadFailure   \* the note whose LoadNote or SearchableText failed, and its error

fnvars == <<text, query, ret>>

dovars == <<home, cfg, cmd, pc, cats, cursor, notes, cmdout, out, pager,
            editorCalls, spawned, sortedBy, result, wfail, loadFailure>>

vars == <<text, query, ret, home, cfg, cmd, pc, cats, cursor, notes, cmdout, out,
          pager, editorCalls, spawned, sortedBy, result, wfail, loadFailure>>

(***************************************************************************)
(* Bounds of the matcher specifications.                                   *)
(***************************************************************************)
MaxNeedleLen == 3

MaxHaystackLen == 4

MaxTextLen == 3

MaxQueryLen == 4

\* The largest number of notes under the note root.
MaxNotes == 3

(***************************************************************************)
(* Strings                                                                 *)
(***************************************************************************)
\* All strings of length at most n over the code points in alphabet.
RECURSIVE StringsUpTo(_, _)
StringsUpTo(alphabet, n) ==
    IF n = 0 THEN {<<>>}
    ELSE LET shorter == StringsUpTo(alphabet, n - 1)
         IN  shorter \cup {Append(s, c) : s \in {t \in shorter : Len(t) = n - 1}, c \in alphabet}

\* The number of bytes of the UTF-8 encoding of code point c.
Utf8Len(c) ==
    IF c < 128 THEN 1 ELSE IF c < 2048 THEN 2 ELSE IF c < 65536 THEN 3 ELSE 4

\* len(s) of Go: the number of bytes of s.
RECURSIVE ByteLen(_)
ByteLen(s) == IF s = <<>> THEN 0 ELSE Utf8Len(Head(s)) + ByteLen(Tail(s))

\* unicode.IsSpace on the code points below U+0100.
IsSpace(c) == c \in {9, 10, 11, 12, 13, 32, 133, 160}

\* unicode.ToLower on the code points below U+0100.
ToLowerRune(c) ==
    IF c \in 65..90 THEN c + 32
    ELSE IF c \in 192..222 /\ c # 215 THEN c + 32
    ELSE c

\* strings.ToLower
ToLower(s) == [i \in 1..Len(s) |-> ToLowerRune(s[i])]

\* strings.TrimSpace: leading and trailing white space removed.
RECURSIVE TrimLeft(_)
TrimLeft(s) == IF s # <<>> /\ IsSpace(Head(s)) THEN TrimLeft(Tail(s)) ELSE s

RECURSIVE TrimRight(_)
TrimRight(s) ==
    IF s # <<>> /\ IsSpace(s[Len(s)]) THEN TrimRight(SubSeq(s, 1, Len(s) - 1)) ELSE s

TrimSpace(s) == TrimRight(TrimLeft(s))

\* strings.Fields: the maximal runs of non-space code points, in order.
\* cur is the field being read, done the fields already closed.
RECURSIVE FieldsFrom(_, _, _)
FieldsFrom(s, cur, done) ==
    IF s = <<>> THEN (IF cur = <<>> THEN done ELSE Append(done, cur))
    ELSE IF IsSpace(Head(s))
         THEN FieldsFrom(Tail(s), <<>>, IF cur = <<>> THEN done ELSE Append(done, cur))
         ELSE FieldsFrom(Tail(s), Append(cur, Head(s)), done)

Fields(s) == FieldsFrom(s, <<>>, <<>>)

\* strings.Contains: sub occurs in s as a contiguous substring.
Contains(s, sub) ==
    \E i \in 0..(Len(s) - Len(sub)) : SubSeq(s, i + 1, i + Len(sub)) = sub

(***************************************************************************)
(* isSubsequence: the greedy scan.  i is the needle cursor (0-based, as in *)
(* the code), rest what is left of the haystack.                           *)
(***************************************************************************)
\* A scan that gives up at the first mismatch after a match was made loses
\* the non-contiguous embeddings; it is not the greedy scan.
RECURSIVE SubsequenceScanContiguous(_, _, _)
SubsequenceScanContiguous(runes, i, rest) ==
    IF rest = <<>> THEN FALSE
    ELSE IF Head(rest) # runes[i + 1]
         THEN (IF i > 0 THEN FALSE ELSE SubsequenceScanContiguous(runes, i, Tail(rest)))
         ELSE IF i + 1 = Len(runes) THEN TRUE
              ELSE SubsequenceScanContiguous(runes, i + 1, Tail(rest))

RECURSIVE SubsequenceScan(_, _, _)
SubsequenceScan(runes, i, rest) ==
    IF rest = <<>> THEN FALSE
    ELSE IF Head(rest) # runes[i + 1] THEN SubsequenceScan(runes, i, Tail(rest))
         ELSE IF i + 1 = Len(runes) THEN TRUE
              ELSE SubsequenceScan(runes, i + 1, Tail(rest))

isSubsequence(needle, haystack) ==
    IF needle = <<>> THEN TRUE ELSE SubsequenceScan(needle, 0, haystack)

(***************************************************************************)
(* isFuzzyTokenMatch                                                       *)
(***************************************************************************)
\* The floor on len(token), in bytes (len of a Go string).
FuzzyMinLen == 3

\* The largest len(wordRunes) - len(tokenRunes) a candidate word may have.
FuzzyMaxExtra == 3

\* The loop over strings.Fields(text): words is what is left of it.
RECURSIVE FuzzyWordLoop(_, _)
FuzzyWordLoop(token, words) ==
    IF words = <<>> THEN FALSE
    ELSE LET word == Head(words)
         IN  IF Len(word) < Len(token) \/ Len(word) - Len(token) > FuzzyMaxExtra
             THEN FuzzyWordLoop(token, Tail(words))
             ELSE IF token[1] # word[1]
                  THEN FuzzyWordLoop(token, Tail(words))
                  ELSE IF isSubsequence(token, word)
                       THEN TRUE
                       ELSE FuzzyWordLoop(token, Tail(words))

isFuzzyTokenMatch(token, txt) ==
    IF ByteLen(token) < FuzzyMinLen THEN FALSE
    ELSE FuzzyWordLoop(token, Fields(txt))

(***************************************************************************)
(* findQueryMatch                                                          *)
(***************************************************************************)
\* A token loop that accepts as soon as one token matches (any, not every).
RECURSIVE TokenLoopAny(_, _)
TokenLoopAny(txt, tokens) ==
    IF tokens = <<>> THEN FALSE
    ELSE \/ Contains(txt, Head(tokens))
         \/ isFuzzyTokenMatch(Head(tokens), txt)
         \/ TokenLoopAny(txt, Tail(tokens))

\* The loop over strings.Fields(query): tokens is what is left of it.
RECURSIVE TokenLoop(_, _)
TokenLoop(txt, tokens) ==
    IF tokens = <<>> THEN TRUE
    ELSE IF Contains(txt, Head(tokens)) THEN TokenLoop(txt, Tail(tokens))
         ELSE IF ~isFuzzyTokenMatch(Head(tokens), txt) THEN FALSE
              ELSE TokenLoop(txt, Tail(tokens))

findQueryMatch(txt, qry) ==
    LET q == ToLower(TrimSpace(qry))
    IN  IF q = <<>> THEN TRUE
        ELSE LET t == ToLower(txt)
             IN  IF Contains(t, q) THEN TRUE
                 ELSE TokenLoop(t, Fields(q))

\* No FindCmd is running (the matcher specifications).
DoIdle ==
    /\ home = {}
    /\ cfg = [PagerCmd |-> "", EditorCmd |-> ""]
    /\ cmd = [Query |-> <<>>, Relative |-> FALSE, SortBy |-> "created", Edit |-> FALSE]
    /\ pc = "idle"
    /\ cats = <<>>
    /\ cursor = 1
    /\ notes = <<>>
    /\ cmdout = "unset"
    /\ out = <<>>
    /\ pager = [started |-> FALSE, waited |-> FALSE, Err |-> <<>>, stdin |-> <<>>]
    /\ editorCalls = <<>>
    /\ spawned = {}
    /\ sortedBy = <<>>
    /\ result = <<>>
    /\ wfail = <<>>
    /\ loadFailure = [note |-> 0, err |-> <<>>]

(***************************************************************************)
(* The matcher specifications: Init draws the two arguments from bounded   *)
(* sets, the action applies the function and keeps what it returned.       *)
(***************************************************************************)
\* 'a', 'b' and U+00E9 (two bytes in UTF-8).
SubseqAlphabet == {97, 98, 233}

InitSubseq ==
    /\ query \in StringsUpTo(SubseqAlphabet, MaxNeedleLen)
    /\ text \in StringsUpTo(SubseqAlphabet, MaxHaystackLen)
    /\ ret = "none"
    /\ DoIdle

CallIsSubsequence ==
    /\ ret = "none"
    /\ ret' = IF isSubsequence(query, text) THEN "true" ELSE "false"
    /\ UNCHANGED <<text, query>>
    /\ UNCHANGED dovars

SpecSubseq == InitSubseq /\ [][CallIsSubsequence]_vars

\* C9: the greedy scan isSubsequence(needle, haystack) returns true if and
\* only if there are strictly increasing positions of haystack whose
\* characters spell needle (the empty needle always embeds).
HasEmbedding(needle, haystack) ==
    \E f \in [1..Len(needle) -> 1..Len(haystack)] :
        /\ \A i, j \in 1..Len(needle) : i < j => f[i] < f[j]
        /\ \A i \in 1..Len(needle) : haystack[f[i]] = needle[i]

\* C9
SubsequenceIffEmbedding ==
    ret # "none" => ((ret = "true") <=> HasEmbedding(query, text))

\* C9: the greedy scan has accepted a needle of two or more characters
\* that does not occur contiguously in the haystack and whose embedding
\* does not start at the haystack's first character.
SubsequenceWitness ==
    /\ ret = "true"
    /\ Len(query) >= 2
    /\ ~Contains(text, query)
    /\ text[1] # query[1]

(***************************************************************************)
(* Inputs with one long word: c1, then i times c2, then j times c3, with   *)
(* i + j <= n.  They reach the length-difference bound of the fuzzy test,  *)
(* which no exhaustively enumerated short text does.                       *)
(***************************************************************************)
Run(c, n) == [i \in 1..n |-> c]

LongWords(c1, c2, c3, n) ==
    {<<c1>> \o Run(c2, ij[1]) \o Run(c3, ij[2]) :
        ij \in {p \in (0..n) \X (0..n) : p[1] + p[2] <= n}}

\* The (first, last) positions of the whitespace-separated words of s.
WordSpans(s) ==
    {<<i, j>> \in (1..Len(s)) \X (1..Len(s)) :
        /\ i <= j
        /\ \A k \in i..j : ~IsSpace(s[k])
        /\ (i = 1 \/ IsSpace(s[i - 1]))
        /\ (j = Len(s) \/ IsSpace(s[j + 1]))}

WordsOf(s) == {SubSeq(s, sp[1], sp[2]) : sp \in WordSpans(s)}

(***************************************************************************)
(* isFuzzyTokenMatch on its own.                                           *)
(***************************************************************************)
\* 'a', 'b', U+00E9 and the space.
FuzzyAlphabet == {97, 98, 233, 32}

InitFuzzy ==
    /\ query \in StringsUpTo(FuzzyAlphabet \ {32}, MaxNeedleLen)
    /\ text \in StringsUpTo(FuzzyAlphabet, MaxHaystackLen)
                  \cup LongWords(233, 98, 97, MaxHaystackLen)
    /\ ret = "none"
    /\ DoIdle

CallIsFuzzyTokenMatch ==
    /\ ret = "none"
    /\ ret' = IF isFuzzyTokenMatch(query, text) THEN "true" ELSE "false"
    /\ UNCHANGED <<text, query>>
    /\ UNCHANGED dovars

SpecFuzzy == InitFuzzy /\ [][CallIsFuzzyTokenMatch]_vars

\* The fuzzy test of one token against one word with every length counted
\* in characters.
FuzzyWordMatchChars(t, w) ==
    /\ Len(t) >= FuzzyMinLen
    /\ Len(w) >= Len(t)
    /\ Len(w) - Len(t) <= FuzzyMaxExtra
    /\ t[1] = w[1]
    /\ HasEmbedding(t, w)

\* C4: isFuzzyTokenMatch(t, text) is true if and only if some word w of
\* the text satisfies: t has at least 3 characters, w has at least as many
\* characters as t and at most 3 more, their first characters are equal,
\* and t is a subsequence of w.
FuzzyIffWordMatchChars ==
    ret # "none" =>
        ((ret = "true") <=> \E w \in WordsOf(text) : FuzzyWordMatchChars(query, w))

(***************************************************************************)
(* findQueryMatch on its own.                                              *)
(***************************************************************************)
\* 'a', 'B', U+00E9 and the space.
MatchAlphabet == {97, 66, 233, 32}

InitMatch ==
    /\ query \in StringsUpTo(MatchAlphabet, MaxQueryLen)
    /\ text \in StringsUpTo(MatchAlphabet, MaxTextLen)
                  \cup LongWords(233, 66, 97, MaxTextLen + FuzzyMaxExtra)
    /\ ret = "none"
    /\ DoIdle

CallFindQueryMatch ==
    /\ ret = "none"
    /\ ret' = IF findQueryMatch(text, query) THEN "true" ELSE "false"
    /\ UNCHANGED <<text, query>>
    /\ UNCHANGED dovars

SpecMatch == InitMatch /\ [][CallFindQueryMatch]_vars

\* The fuzzy test of one token against one word as the code measures it:
\* the floor on the token in bytes (len of a Go string), the length
\* difference in characters.
FuzzyWordMatch(t, w) ==
    /\ ByteLen(t) >= FuzzyMinLen
    /\ Len(w) >= Len(t)
    /\ Len(w) - Len(t) <= FuzzyMaxExtra
    /\ t[1] = w[1]
    /\ HasEmbedding(t, w)

\* C3: findQueryMatch(text, query) is true exactly when the trimmed,
\* lower-cased query is empty, or the lower-cased text contains the whole
\* normalized query, or every whitespace-separated token of the query is a
\* substring of the lower-cased text or fuzzy-matches some word of it.
FindQueryMatchIffTokens ==
    ret # "none" =>
        LET q == ToLower(TrimSpace(query))
            t == ToLower(text)
        IN  (ret = "true") <=>
                \/ q = <<>>
                \/ Contains(t, q)
                \/ \A tok \in WordsOf(q) :
                      \/ Contains(t, tok)
                      \/ \E w \in WordsOf(t) : FuzzyWordMatch(tok, w)

\* C3: a query of several tokens that is not contained as a whole, with a
\* token that only the fuzzy test accepts, has matched.
FindQueryMatchWitness ==
    /\ ret = "true"
    /\ LET q == ToLower(TrimSpace(query))
           t == ToLower(text)
       IN  /\ Cardinality(WordsOf(q)) >= 2
           /\ ~Contains(t, q)
           /\ \E tok \in WordsOf(q) : ~Contains(t, tok)

(***************************************************************************)
(* The notes.  A note is known by its number; its file name is <number>.md *)
(* in the directory of its category.                                       *)
(***************************************************************************)
NoteIds == {1, 2, 3, 4}

Category == [n \in NoteIds |-> <<"a", "b", "c", "a">>[n]]

CategoryRank == [n \in NoteIds |-> <<1, 2, 3, 1>>[n]]

RelFilePath == [n \in NoteIds |-> <<"a/1.md", "b/2.md", "c/3.md", "a/4.md">>[n]]

FilePath == [n \in NoteIds |->
    <<"/home/a/1.md", "/home/b/2.md", "/home/c/3.md", "/home/a/4.md">>[n]]

\* "ab", "c", "Ab b", "abxb"
Title == [n \in NoteIds |->
    <<  <<97, 98>>, <<99>>, <<65, 98, 32, 98>>, <<97, 98, 120, 98>>  >>[n]]

\* Tags and body: "c", "x ab", "", "c"
Rest == [n \in NoteIds |->
    <<  <<99>>, <<120, 32, 97, 98>>, <<>>, <<99>>  >>[n]]

Created == [n \in NoteIds |-> <<2, 3, 4, 1>>[n]]

Modified == [n \in NoteIds |-> <<3, 1, 2, 4>>[n]]

\* Note.SearchableText: the title, then tags and body.
SearchableText(n) == Title[n] \o <<10>> \o Rest[n]

\* The queries tried: "ab", " AB ", "abb", "zz".
Queries == { <<97, 98>>, <<32, 65, 66, 32>>, <<97, 98, 98>>, <<122, 122>> }

(***************************************************************************)
(* Errors: nil is the empty sequence, an error the sequence of its         *)
(* messages, outermost first.                                              *)
(***************************************************************************)
NoErr == <<>>

PagerMsg == "Pager command did not run successfully"

WriteErr == <<"Write error for test">>

\* errors.Wrap: nil stays nil.
Wrap(err, msg) == IF err = NoErr THEN NoErr ELSE <<msg>> \o err

LoadErr(n) == <<"Cannot parse created date time", RelFilePath[n]>>

TextErr(n) == <<"Cannot read searchable text", RelFilePath[n]>>

(***************************************************************************)
(* The collaborators of FindCmd.                                           *)
(***************************************************************************)
\* x put into sorted, after the notes whose key is not larger.
RECURSIVE InsertByKey(_, _, _)
InsertByKey(x, sorted, key) ==
    IF sorted = <<>> THEN <<x>>
    ELSE IF key[x] < key[Head(sorted)] THEN <<x>> \o sorted
         ELSE <<Head(sorted)>> \o InsertByKey(x, Tail(sorted), key)

\* A stable sort of ns, ascending by key.
RECURSIVE StableSortByKey(_, _)
StableSortByKey(ns, key) ==
    IF ns = <<>> THEN <<>>
    ELSE InsertByKey(ns[Len(ns)], StableSortByKey(SubSeq(ns, 1, Len(ns) - 1), key), key)

sortByFilename(ns) == StableSortByKey(ns, [n \in NoteIds |-> n])

sortByCategory(ns) == StableSortByKey(ns, CategoryRank)

sortByCreated(ns) == StableSortByKey(ns, [n \in NoteIds |-> 0 - Created[n]])

sortByModified(ns) == StableSortByKey(ns, [n \in NoteIds |-> 0 - Modified[n]])

\* The notes of set S in ascending order of their numbers.
RECURSIVE InOrder(_)
InOrder(S) ==
    IF S = {} THEN <<>>
    ELSE LET m == CHOOSE x \in S : \A y \in S : x <= y
         IN  <<m>> \o InOrder(S \ {m})

\* CollectCategories: the categories in order, each with its note paths in order.
RECURSIVE CategoriesFrom(_, _)
CategoriesFrom(ranks, S) ==
    IF ranks = <<>> THEN <<>>
    ELSE LET mine == {n \in S : CategoryRank[n] = Head(ranks)}
         IN  (IF mine = {} THEN <<>> ELSE << [NotePaths |-> InOrder(mine)] >>)
             \o CategoriesFrom(Tail(ranks), S)

CollectCategories(S) == CategoriesFrom(<<1, 2, 3>>, S)

\* openEditor: no process is started when no editor command is set.
openEditor(config, args, exitErr) ==
    IF config.EditorCmd = ""
    THEN [err |-> <<"Editor command is not set">>, started |-> FALSE]
    ELSE [err |-> exitErr, started |-> TRUE]

\* StartPagerWriter: the command line is parsed, then the process started.
StartPagerWriter(pagerCmd, canStart) ==
    IF pagerCmd = "'foo" THEN <<"Cannot parsing pager command">>
    ELSE IF ~canStart THEN <<"Cannot start pager command">>
    ELSE NoErr

\* PagerWriter.Write: a failed write to the pager's input is kept in Err.
PagerWrite(pg, lines, werr) ==
    IF pg.Err # NoErr THEN pg
    ELSE IF werr # NoErr THEN [pg EXCEPT !.Err = werr]
    ELSE [pg EXCEPT !.stdin = pg.stdin \o lines]

\* PagerWriter.Wait: the pager's input is closed and its exit awaited; what
\* went wrong, a failed copy to Out included, is kept in Err.
PagerWait(pg, exitErr) == [pg EXCEPT !.waited = TRUE, !.Err = exitErr]

(***************************************************************************)
(* FindCmd.printNotes                                                      *)
(***************************************************************************)
\* strings.ToLower on the values of SortBy.
LowerSortBy(v) == IF v = "MODIFIED" THEN "modified" ELSE v

\* One line of output for note n.
RelativeLine(n) == [fmt |-> "relative", path |-> RelFilePath[n]]

OnelineLine(n) == [fmt |-> "oneline", path |-> RelFilePath[n]]

\* The switch on the lower-cased SortBy, when no sort fails.
sortNotes(key, ns) ==
    CASE key = "filename" -> sortByFilename(ns)
      [] key = "category" -> sortByCategory(ns)
      [] key = "modified" -> sortByModified(ns)
      [] OTHER -> sortByCreated(ns)

\* Editor arguments made of the paths relative to the note root.
EditorArgsRelative(ns) == [k \in 1..Len(ns) |-> RelFilePath[ns[k]]]

\* The editor's arguments: n.FilePath() of every note, in order.
EditorArgs(ns) == [k \in 1..Len(ns) |-> FilePath[ns[k]]]

\* What printNotes does with ns: the error it returns, ns as sorted in
\* place, the sorts run, the openEditor calls, whether an editor process was
\* started, the lines handed to cmd.out and whether a write was attempted.
\* modErr is what sortByModified returns, editorExit the editor's exit
\* error, werr what cmd.out's Write returns.
printNotes(ns, c, config, modErr, editorExit, werr) ==
    LET key == LowerSortBy(c.SortBy)
        base == [err |-> NoErr, notes |-> ns, sorts |-> <<>>, calls |-> <<>>,
                 editor |-> FALSE, lines |-> <<>>, wrote |-> FALSE]
    IN  IF key = "modified" /\ modErr # NoErr
        THEN [base EXCEPT !.err = modErr, !.sorts = <<key>>]
        ELSE LET sorted == sortNotes(key, ns)
                 done == [base EXCEPT !.notes = sorted,
                                      !.sorts = <<IF key \in {"filename", "category", "modified"}
                                                  THEN key ELSE "created">>]
             IN  IF c.Edit
                 THEN LET args == EditorArgs(sorted)
                          ed == openEditor(config, args, editorExit)
                      IN  [done EXCEPT !.err = ed.err, !.calls = <<args>>,
                                       !.editor = ed.started]
                 ELSE IF c.Relative
                      THEN [done EXCEPT !.err = werr, !.wrote = TRUE,
                               !.lines = [k \in 1..Len(sorted) |-> RelativeLine(sorted[k])]]
                      ELSE [done EXCEPT !.err = werr, !.wrote = TRUE,
                               !.lines = [k \in 1..Len(sorted) |-> OnelineLine(sorted[k])]]

(***************************************************************************)
(* FindCmd.Do                                                              *)
(***************************************************************************)
PagerCmds == {"", "'foo", "cat"}

EditorCmds == {"", "vim"}

SortByValues == {"created", "modified", "MODIFIED", "filename", "category"}

ModErrs == {NoErr, <<"Cannot get modified time">>}

EditorExits == {NoErr, <<"Editor command did not exit successfully">>}

PagerExits == {NoErr, WriteErr, <<"exit status 1">>}

Init ==
    /\ text = <<>>
    /\ query = <<>>
    /\ ret = "none"
    /\ home \in {S \in SUBSET NoteIds : Cardinality(S) <= MaxNotes}
    /\ cfg \in [PagerCmd : PagerCmds, EditorCmd : EditorCmds]
    /\ cmd \in [Query : Queries, Relative : BOOLEAN, SortBy : SortByValues, Edit : BOOLEAN]
    /\ pc = "start"
    /\ cats = <<>>
    /\ cursor = 1
    /\ notes = <<>>
    /\ cmdout = "unset"
    /\ out = <<>>
    /\ pager = [started |-> FALSE, waited |-> FALSE, Err |-> NoErr, stdin |-> <<>>]
    /\ editorCalls = <<>>
    /\ spawned = {}
    /\ sortedBy = <<>>
    /\ result = NoErr
    /\ wfail = NoErr
    /\ loadFailure = [note |-> 0, err |-> NoErr]

\* The note paths of cs in the order the two nested loops visit them.
RECURSIVE Paths(_)
Paths(cs) == IF cs = <<>> THEN <<>> ELSE Head(cs).NotePaths \o Paths(Tail(cs))

\* Do returns err.
Return(err) ==
    /\ result' = err
    /\ pc' = "done"

\* CollectCategories, and its error returned.
DoCollect ==
    /\ pc = "start"
    /\ \E readable \in BOOLEAN :
          IF readable
          THEN /\ cats' = CollectCategories(home)
               /\ pc' = "scan"
               /\ UNCHANGED result
          ELSE /\ Return(<<"Cannot read home">>)
               /\ UNCHANGED cats
    /\ UNCHANGED <<fnvars, home, cfg, cmd, cursor, notes, cmdout, out, pager,
                   editorCalls, spawned, sortedBy, wfail, loadFailure>>

\* A loop body that drops a note that cannot be loaded and goes on.
ScanStepSkipBroken(ns, p, q, loadErr, textErr) ==
    IF loadErr # NoErr \/ textErr # NoErr THEN [returns |-> FALSE, err |-> NoErr, notes |-> ns]
    ELSE IF ~findQueryMatch(SearchableText(p), q)
         THEN [returns |-> FALSE, err |-> NoErr, notes |-> ns]
         ELSE [returns |-> FALSE, err |-> NoErr, notes |-> Append(ns, p)]

\* One pass of the loop body for path p: whether Do returns, with what, and
\* the notes slice after it.
ScanStep(ns, p, q, loadErr, textErr) ==
    IF loadErr # NoErr THEN [returns |-> TRUE, err |-> loadErr, notes |-> ns]
    ELSE IF textErr # NoErr THEN [returns |-> TRUE, err |-> textErr, notes |-> ns]
    ELSE IF ~findQueryMatch(SearchableText(p), q)
         THEN [returns |-> FALSE, err |-> NoErr, notes |-> ns]
         ELSE [returns |-> FALSE, err |-> NoErr, notes |-> Append(ns, p)]

DoScan ==
    /\ pc = "scan"
    /\ cursor <= Len(Paths(cats))
    /\ LET p == Paths(cats)[cursor]
           q == ToLower(TrimSpace(cmd.Query))
       IN  \E outcome \in {"ok", "load", "text"} :
              LET loadErr == IF outcome = "load" THEN LoadErr(p) ELSE NoErr
                  textErr == IF outcome = "text" THEN TextErr(p) ELSE NoErr
                  r == ScanStep(notes, p, q, loadErr, textErr)
              IN  /\ loadFailure' = IF outcome = "ok" THEN loadFailure
                                    ELSE [note |-> p, err |-> loadErr \o textErr]
                  /\ notes' = r.notes
                  /\ IF r.returns
                     THEN Return(r.err) /\ UNCHANGED cursor
                     ELSE cursor' = cursor + 1 /\ UNCHANGED <<pc, result>>
    /\ UNCHANGED <<fnvars, home, cfg, cmd, cats, cmdout, out, pager,
                   editorCalls, spawned, sortedBy, wfail>>

\* Both loops are over.
ScanOver == pc = "scan" /\ cursor > Len(Paths(cats))

\* A Do without the early return on an empty result.
NoMatchNever(ns) == FALSE

\* len(notes) == 0
NoMatch(ns) == Len(ns) = 0

DoReturnEmpty ==
    /\ ScanOver
    /\ NoMatch(notes)
    /\ Return(NoErr)
    /\ UNCHANGED <<fnvars, home, cfg, cmd, cats, cursor, notes, cmdout, out, pager,
                   editorCalls, spawned, sortedBy, wfail, loadFailure>>

\* No pager: cmd.out is cmd.Out, and what printNotes returns is returned.
DoPrintDirect ==
    /\ ScanOver
    /\ ~NoMatch(notes)
    /\ cfg.PagerCmd = ""
    /\ cmdout' = "Out"
    /\ \E modErr \in ModErrs, editorExit \in EditorExits, werr \in {NoErr, WriteErr} :
          LET r == printNotes(notes, cmd, cfg, modErr, editorExit, werr)
          IN  /\ notes' = r.notes
              /\ sortedBy' = sortedBy \o r.sorts
              /\ editorCalls' = editorCalls \o r.calls
              /\ spawned' = IF r.editor THEN spawned \cup {"editor"} ELSE spawned
              /\ out' = IF r.wrote /\ werr = NoErr THEN out \o r.lines ELSE out
              /\ Return(r.err)
    /\ UNCHANGED <<fnvars, home, cfg, cmd, cats, cursor, pager, wfail, loadFailure>>

\* StartPagerWriter, and its error returned.
DoStartPager ==
    /\ ScanOver
    /\ ~NoMatch(notes)
    /\ cfg.PagerCmd # ""
    /\ \E canStart \in BOOLEAN :
          LET err == StartPagerWriter(cfg.PagerCmd, canStart)
          IN  IF err # NoErr
              THEN /\ Return(err)
                   /\ UNCHANGED <<pager, spawned, cmdout>>
              ELSE /\ pager' = [pager EXCEPT !.started = TRUE]
                   /\ spawned' = spawned \cup {"pager"}
                   /\ cmdout' = "pager"
                   /\ pc' = "print"
                   /\ UNCHANGED result
    /\ UNCHANGED <<fnvars, home, cfg, cmd, cats, cursor, notes, out,
                   editorCalls, sortedBy, wfail, loadFailure>>

\* An error of printNotes returned as it is.
PrintFailedPlain(err, pagerErr) == err

\* What Do returns when printNotes returned err with the pager as cmd.out.
PrintFailed(err, pagerErr) ==
    IF pagerErr # NoErr THEN Wrap(err, PagerMsg) ELSE err

\* printNotes with the pager as cmd.out; its error is returned at once.
DoPrintPager ==
    /\ pc = "print"
    /\ \E modErr \in ModErrs, editorExit \in EditorExits, werr \in {NoErr, WriteErr} :
          LET r == printNotes(notes, cmd, cfg, modErr, editorExit, werr)
              pg == IF r.wrote THEN PagerWrite(pager, r.lines, werr) ELSE pager
          IN  /\ notes' = r.notes
              /\ sortedBy' = sortedBy \o r.sorts
              /\ editorCalls' = editorCalls \o r.calls
              /\ spawned' = IF r.editor THEN spawned \cup {"editor"} ELSE spawned
              /\ pager' = pg
              /\ wfail' = IF r.wrote THEN werr ELSE wfail
              /\ IF r.err # NoErr
                 THEN Return(PrintFailed(r.err, pg.Err))
                 ELSE pc' = "wait" /\ UNCHANGED result
    /\ UNCHANGED <<fnvars, home, cfg, cmd, cats, cursor, cmdout, out, loadFailure>>

\* pager.Wait(), then pager.Err wrapped and returned.  The pager copies
\* what it read to cmd.Out; it cannot fail to write what it never read.
DoWait ==
    /\ pc = "wait"
    /\ \E exitErr \in PagerExits :
          /\ exitErr = WriteErr => pager.stdin # <<>>
          /\ pager' = PagerWait(pager, exitErr)
          /\ out' = IF exitErr = NoErr THEN out \o pager.stdin ELSE out
          /\ wfail' = IF exitErr = WriteErr THEN exitErr ELSE wfail
          /\ Return(Wrap(exitErr, PagerMsg))
    /\ UNCHANGED <<fnvars, home, cfg, cmd, cats, cursor, notes, cmdout,
                   editorCalls, spawned, sortedBy, loadFailure>>

Next ==
    \/ DoCollect
    \/ DoScan
    \/ DoReturnEmpty
    \/ DoPrintDirect
    \/ DoStartPager
    \/ DoPrintPager
    \/ DoWait

Spec == Init /\ [][Next]_vars

(***************************************************************************)
(* Properties of FindCmd.Do                                                *)
(***************************************************************************)
\* The two loops have visited every path: neither CollectCategories nor a
\* note failed.
ScanComplete ==
    /\ pc # "start"
    /\ result # <<"Cannot read home">>
    /\ cursor > Len(Paths(cats))

\* The notes that match cmd.Query, in traversal order.
MatchedInOrder ==
    SelectSeq(Paths(cats), LAMBDA n : findQueryMatch(SearchableText(n), cmd.Query))

\* C1: in one invocation of Do at most one subprocess is started: the pager
\* and the editor are never both started (so that with Edit set, where the
\* editor is the one started, no pager is).
AtMostOneSubprocess == Cardinality(spawned) <= 1

\* C2: a note is kept in the result only if its lower-cased title contains
\* the trimmed, lower-cased query as a contiguous substring.
TitlePhaseMandatory ==
    \A k \in 1..Len(notes) :
        Contains(ToLower(Title[notes[k]]), ToLower(TrimSpace(cmd.Query)))

\* The absolute paths of the matched notes in the order of the sort chosen.
SortedAbsolutePaths ==
    LET sorted == sortNotes(LowerSortBy(cmd.SortBy), MatchedInOrder)
    IN  [k \in 1..Len(MatchedInOrder) |-> FilePath[sorted[k]]]

\* C5, as claimed: in edit mode with a non-empty matched set, Do calls the
\* editor exactly once with the absolute path of every matched note in
\* sorted order, and writes nothing to Out.
EditInvokesEditorOnce ==
    (pc = "done" /\ cmd.Edit /\ ScanComplete /\ MatchedInOrder # <<>>) =>
        /\ editorCalls = << SortedAbsolutePaths >>
        /\ out = <<>>

\* What Do returns when it ends before the editor is reached: a failed
\* StartPagerWriter, or a failed sortByModified.
AbortsBeforeEditor ==
    {<<"Cannot parsing pager command">>, <<"Cannot start pager command">>}
        \cup (ModErrs \ {NoErr})

\* C5, as amended: in edit mode with a non-empty matched set, Do writes
\* nothing to Out and calls openEditor at most once: never when it returns
\* the error of StartPagerWriter or of sortByModified, and otherwise exactly
\* once, with the absolute path of every matched note in sorted order.
EditCallsEditorUnlessAborted ==
    (pc = "done" /\ cmd.Edit /\ ScanComplete /\ MatchedInOrder # <<>>) =>
        /\ out = <<>>
        /\ pager.stdin = <<>>
        /\ IF result \in AbortsBeforeEditor
           THEN editorCalls = <<>>
           ELSE editorCalls = << SortedAbsolutePaths >>

\* C5: the editor was called with two or more paths whose sorted order is
\* not the traversal order.
EditCallsEditorWitness ==
    /\ pc = "done"
    /\ cmd.Edit
    /\ Len(editorCalls) = 1
    /\ Len(editorCalls[1]) >= 2
    /\ notes # MatchedInOrder

\* C6: when the pager was started and a write of the output through it
\* failed, Do returns that failure wrapped with "Pager command did not run
\* successfully".
PagerWriteFailureWrapped ==
    (pc = "done" /\ pager.started /\ wfail # NoErr) =>
        result = <<PagerMsg>> \o wfail

\* C6: printNotes itself returned the write failure (the pager was not
\* waited for), and Do has returned.
PagerWriteFailureWitness ==
    /\ pc = "done"
    /\ pager.started
    /\ wfail # NoErr
    /\ ~pager.waited

\* C7: when no note matches, Do returns nil, writes nothing, sorts nothing
\* and starts neither pager nor editor.
NoMatchNoEffect ==
    (pc = "done" /\ ScanComplete /\ MatchedInOrder = <<>>) =>
        /\ result = NoErr
        /\ out = <<>>
        /\ sortedBy = <<>>
        /\ spawned = {}
        /\ ~pager.started
        /\ editorCalls = <<>>

\* C7: Do has returned on notes none of which matched, with a pager and an
\* editor configured and Edit set.
NoMatchWitness ==
    /\ pc = "done"
    /\ ScanComplete
    /\ MatchedInOrder = <<>>
    /\ Cardinality(home) >= 2
    /\ cfg.PagerCmd = "cat"
    /\ cfg.EditorCmd # ""
    /\ cmd.Edit

\* C8: when LoadNote or SearchableText fails for a note, Do returns that
\* note's error, writes nothing and starts neither pager nor editor.
LoadFailureAborts ==
    (pc = "done" /\ loadFailure.note # 0) =>
        /\ result = loadFailure.err
        /\ out = <<>>
        /\ spawned = {}
        /\ ~pager.started
        /\ editorCalls = <<>>
        /\ sortedBy = <<>>

\* C8: a note failed after earlier notes of the traversal had matched.
LoadFailureWitness ==
    /\ pc = "done"
    /\ loadFailure.note # 0
    /\ Len(notes) >= 1
    /\ cfg.PagerCmd = "cat"

\* C10: whenever the pager was started, Do has waited for it when it
\* returns.
PagerAlwaysWaited ==
    (pc = "done" /\ pager.started) => pager.waited

====
